---- MODULE Spec2Model ----
(***************************************************************************)
(* State-machine model of ammiranda/tree_service: the node repositories    *)
(* (MockRepository, PostgresRepository), the tree builder                  *)
(* (handlers.BuildTreeFromNodes), the page-keyed cache (MemoryCache,       *)
(* RedisCache behind the package-level provider) and the gin handlers      *)
(* GetTree, CreateNode and UpdateNode.                                     *)
(*                                                                         *)
(* Conventions.  A nil *int64 parent is written Nil (0); ids assigned by   *)
(* both repositories are >= 1.  Time is an integer clock in minutes.  The  *)
(* variable resp holds the last call made on the system together with what *)
(* it returned, hist holds, per cache key, what was last done to that key. *)
(***************************************************************************)
EXTENDS Integers, Sequences, FiniteSets, TLC

\* ---- bounds of the model ------------------------------------------------
MaxId == 3
MaxTime == 3

\* ---- program constants --------------------------------------------------
defaultPageSize == 10
maxPageSize == 100
maxLabelLen == 100
DefaultTTL == 5

Nil == 0

VARIABLES
    nodes,      \* repository rows: id -> [id, label, parent]
    nextId,     \* next value of the nodes.id sequence (PostgresRepository)
    repoKind,   \* "mock" or "postgres": the Repository behind the handlers
    provider,   \* "memory" or "redis": the installed CacheProvider
    data,       \* MemoryCache.data: key -> response
    expiries,   \* MemoryCache.expiries: key -> time
    ttl,        \* the provider's ttl field
    redis,      \* keys held by the Redis server: key -> [val, exp]
    redisUp,    \* whether the Redis server can be reached
    now,        \* time.Now()
    resp,       \* the last call and what it returned
    hist,       \* per cache key: the last provider call that concerned it
    del,        \* the DeleteNode call in progress on the repository, if any
    get,        \* the GET /tree request in progress between its steps, if any
    proc        \* the process: the entry point that ran, cache.mu, the requests in progress

vars == <<nodes, nextId, repoKind, provider, data, expiries, ttl, redis,
          redisUp, now, resp, hist, del, get, proc>>

storeVars == <<nodes, nextId>>
cacheVars == <<data, expiries, ttl, redis>>
\* what no call that runs in one step changes: the wiring of the service, the
\* DeleteNode in progress, the GET in progress and the process around them
envVars == <<repoKind, provider, del, get, proc>>

\* the requests that can be in progress at the same time
Requesters == {1, 2}

\* cache.mu held by nobody: w is the holder of the write lock (0 for none),
\* r the holders of the read lock
Unlocked == [w |-> 0, r |-> {}]

\* a requester with no request in progress
AtRest == [pc |-> "idle", kind |-> "", got |-> <<>>]

\* the process once main has installed the cache provider, with cache.mu
\* free and no request between its steps
Served == [entry |-> "http", mu |-> Unlocked, reqs |-> [r \in Requesters |-> AtRest]]

\* no DeleteNode is in progress
Idle == [pc |-> "idle", id |-> Nil, toDelete |-> <<>>, deleted |-> {}, removed |-> {}]

\* ---- finite maps --------------------------------------------------------
EmptyMap == [x \in {} |-> 0]

MapPut(f, k, v) == [x \in (DOMAIN f) \cup {k} |-> IF x = k THEN v ELSE f[x]]

MapDrop(f, S) == [x \in (DOMAIN f) \ S |-> f[x]]

Min2(a, b) == IF a < b THEN a ELSE b

\* ---- fmt.Sprintf("%d") --------------------------------------------------
DigitStr(d) ==
    CASE d = 0 -> "0" [] d = 1 -> "1" [] d = 2 -> "2" [] d = 3 -> "3"
      [] d = 4 -> "4" [] d = 5 -> "5" [] d = 6 -> "6" [] d = 7 -> "7"
      [] d = 8 -> "8" [] OTHER -> "9"

RECURSIVE NatStr(_)
NatStr(n) == IF n < 10 THEN DigitStr(n) ELSE NatStr(n \div 10) \o DigitStr(n % 10)

IntStr(n) == IF n < 0 THEN "-" \o NatStr(0 - n) ELSE NatStr(n)

\* the two numbers written without the separator between them
getCacheKey_NoSeparator(page, pageSize) == "tree:" \o IntStr(page) \o IntStr(pageSize)

getCacheKey(page, pageSize) == "tree:" \o IntStr(page) \o ":" \o IntStr(pageSize)

getRedisKey(page, pageSize) == "tree:" \o IntStr(page) \o ":" \o IntStr(pageSize)

\* ---- cache.PaginatedTreeResponse ---------------------------------------
\* a node that never takes a child
TreeNode_NoChildren(id, label, children) == [id |-> id, label |-> label, children |-> <<>>]

TreeNode(id, label, children) == [id |-> id, label |-> label, children |-> children]

Response(d, page, pageSize, total, totalPages, hasNext, hasPrev) ==
    [data |-> d, page |-> page, pageSize |-> pageSize, total |-> total,
     totalPages |-> totalPages, hasNext |-> hasNext, hasPrev |-> hasPrev]

NilResponse == Response(<<>>, 0, 0, 0, 0, FALSE, FALSE)

Miss == [found |-> FALSE, response |-> NilResponse]

Hit(r) == [found |-> TRUE, response |-> r]

\* ---- MemoryCache --------------------------------------------------------
MemGetPaginatedTree(page, pageSize) ==
    LET key == getCacheKey(page, pageSize)
    IN  IF key \notin DOMAIN expiries \/ now > expiries[key]
        THEN Miss
        ELSE IF key \in DOMAIN data THEN Hit(data[key]) ELSE Miss

\* the expiry computed without adding the ttl
MemExpiry_Now(t) == now

MemExpiry(t) == now + t

\* a key that already holds an entry keeps it
MemSetPaginatedTree_KeepFirst(page, pageSize, response) ==
    LET key == getCacheKey(page, pageSize)
    IN  /\ data' = IF key \in DOMAIN data THEN data ELSE MapPut(data, key, response)
        /\ expiries' = IF key \in DOMAIN data THEN expiries
                       ELSE MapPut(expiries, key, MemExpiry(ttl))
        /\ UNCHANGED <<ttl, redis>>

MemSetPaginatedTree(page, pageSize, response) ==
    LET key == getCacheKey(page, pageSize)
    IN  /\ data' = MapPut(data, key, response)
        /\ expiries' = MapPut(expiries, key, MemExpiry(ttl))
        /\ UNCHANGED <<ttl, redis>>

\* only the entries whose expiry has passed are dropped
MemInvalidateCache_ExpiredOnly ==
    /\ data' = MapDrop(data, {k \in DOMAIN expiries : now > expiries[k]})
    /\ expiries' = MapDrop(expiries, {k \in DOMAIN expiries : now > expiries[k]})
    /\ UNCHANGED <<ttl, redis>>

MemInvalidateCache ==
    /\ data' = EmptyMap
    /\ expiries' = EmptyMap
    /\ UNCHANGED <<ttl, redis>>

MemSetCacheTTL(t) ==
    /\ ttl' = t
    /\ expiries' = [k \in (DOMAIN expiries) \cup (DOMAIN data) |->
                        IF k \in DOMAIN data THEN now + t ELSE expiries[k]]
    /\ UNCHANGED <<data, redis>>

\* ---- RedisCache ---------------------------------------------------------
\* json.Marshal / json.Unmarshal of a PaginatedTreeResponse: the stored
\* string is kept as the tagged field list it encodes.
jsonMarshal(r) ==
    <<"data", r.data, "pagination",
      <<r.page, r.pageSize, r.total, r.totalPages, r.hasNext, r.hasPrev>>>>

jsonUnmarshal(s) == Response(s[2], s[4][1], s[4][2], s[4][3], s[4][4], s[4][5], s[4][6])

\* a key set with expiration t is gone from the server once t has passed
RedisLive(key) == key \in DOMAIN redis /\ now < redis[key].exp

\* the error of client.Get not looked at: the key is served as if reachable
RedisGetPaginatedTree_IgnoreErr(page, pageSize) ==
    LET key == getRedisKey(page, pageSize)
    IN  IF ~RedisLive(key) THEN Miss
        ELSE Hit(jsonUnmarshal(redis[key].val))

RedisGetPaginatedTree(page, pageSize) ==
    LET key == getRedisKey(page, pageSize)
    IN  IF ~redisUp \/ ~RedisLive(key) THEN Miss
        ELSE Hit(jsonUnmarshal(redis[key].val))

RedisSetPaginatedTree(page, pageSize, response) ==
    LET key == getRedisKey(page, pageSize)
    IN  /\ redis' = IF redisUp
                    THEN MapPut(redis, key, [val |-> jsonMarshal(response), exp |-> now + ttl])
                    ELSE redis
        /\ UNCHANGED <<data, expiries, ttl>>

RedisInvalidateCache ==
    /\ redis' = IF redisUp THEN EmptyMap ELSE redis
    /\ UNCHANGED <<data, expiries, ttl>>

RedisSetCacheTTL(t) ==
    /\ ttl' = t
    /\ UNCHANGED <<data, expiries, redis>>

\* ---- package cache: calls forwarded to the installed provider -----------
GetPaginatedTree(page, pageSize) ==
    IF provider = "memory" THEN MemGetPaginatedTree(page, pageSize)
    ELSE RedisGetPaginatedTree(page, pageSize)

\* the call returns without handing the response to the provider
SetPaginatedTree_Skipped(page, pageSize, response) == UNCHANGED cacheVars

SetPaginatedTree(page, pageSize, response) ==
    IF provider = "memory" THEN MemSetPaginatedTree(page, pageSize, response)
    ELSE RedisSetPaginatedTree(page, pageSize, response)

InvalidateCache ==
    IF provider = "memory" THEN MemInvalidateCache ELSE RedisInvalidateCache

SetCacheTTL(t) ==
    IF provider = "memory" THEN MemSetCacheTTL(t) ELSE RedisSetCacheTTL(t)

\* whether a provider call issued now reaches the provider's storage
Reaches == provider = "memory" \/ redisUp

\* ---- repository.Node and the store ---------------------------------------
Row(id, label, parent) == [id |-> id, label |-> label, parent |-> parent]

nodeExists(id) == id \in DOMAIN nodes

\* rows of a set of ids in ascending id order (sort.Slice by ID / ORDER BY id)
RECURSIVE SortById(_, _)
SortById(ns, S) ==
    IF S = {} THEN <<>>
    ELSE LET m == CHOOSE x \in S : \A y \in S : x <= y
         IN  <<ns[m]>> \o SortById(ns, S \ {m})

\* s[start:end] of Go, with 0-based start and exclusive end
Slice(s, start, end) == SubSeq(s, start + 1, end)

Ok(v) == [err |-> "", val |-> v]

Err(e) == [err |-> e, val |-> Nil]

\* ---- MockRepository -----------------------------------------------------
MockNewId(ns) == Cardinality(DOMAIN ns) + 1

MockCreateNode(label, parentID) ==
    LET id == MockNewId(nodes)
    IN  [res |-> Ok(id), nodes |-> MapPut(nodes, id, Row(id, label, parentID)),
         nextId |-> nextId]

\* the map lookup returned without its ok flag being tested
GetNode_NoOkTest(id) ==
    Ok(IF id \in DOMAIN nodes THEN nodes[id] ELSE Row(0, "", Nil))

GetNode(id) == IF id \in DOMAIN nodes THEN Ok(nodes[id]) ELSE Err("ErrNodeNotFound")

\* the slice taken one row past offset + pageSize
MockGetAllNodes_EndInclusive(page, pageSize) ==
    LET total == Cardinality(DOMAIN nodes)
        offset == (page - 1) * pageSize
        allNodes == SortById(nodes, DOMAIN nodes)
        start == offset
        end == Min2(offset + pageSize + 1, total)
    IN  IF start >= total THEN [err |-> "", rows |-> <<>>, total |-> total]
        ELSE IF start < 0 \/ end < start
             THEN [err |-> "panic: slice bounds out of range", rows |-> <<>>, total |-> 0]
             ELSE [err |-> "", rows |-> Slice(allNodes, start, end), total |-> total]

MockGetAllNodes(page, pageSize) ==
    LET total == Cardinality(DOMAIN nodes)
        offset == (page - 1) * pageSize
        allNodes == SortById(nodes, DOMAIN nodes)
        start == offset
        end == Min2(offset + pageSize, total)
    IN  IF start >= total THEN [err |-> "", rows |-> <<>>, total |-> total]
        ELSE IF start < 0 \/ end < start
             THEN [err |-> "panic: slice bounds out of range", rows |-> <<>>, total |-> 0]
             ELSE [err |-> "", rows |-> Slice(allNodes, start, end), total |-> total]

MockUpdateNode(id, label, parentID) ==
    IF id \notin DOMAIN nodes
    THEN [res |-> Err("ErrNodeNotFound"), nodes |-> nodes]
    ELSE [res |-> Ok(id), nodes |-> MapPut(nodes, id, Row(id, label, parentID))]

\* no row is appended to the work list: the delete does not cascade
MockChildren_None(ns, currentID) == {}

\* the ids a pass of the loop appends: every row whose ParentID is currentID
MockChildren(ns, currentID) ==
    {n \in DOMAIN ns : ns[n].parent # Nil /\ ns[n].parent = currentID}

\* the loop of DeleteNode: toDelete is the work list, deleted the visited set
RECURSIVE MockDeleteLoop(_, _, _)
MockDeleteLoop(ns, toDelete, deleted) ==
    IF toDelete = <<>> THEN ns
    ELSE LET currentID == Head(toDelete)
             rest == Tail(toDelete)
         IN  IF currentID \in deleted THEN MockDeleteLoop(ns, rest, deleted)
             ELSE LET kids == SortById([n \in DOMAIN ns |-> n], MockChildren(ns, currentID))
                  IN  MockDeleteLoop(MapDrop(ns, {currentID}), rest \o kids,
                                     deleted \cup {currentID})

MockDeleteNode(id) == [res |-> Ok(id), nodes |-> MockDeleteLoop(nodes, <<id>>, {})]

\* ---- PostgresRepository -------------------------------------------------
PgCreateNode(label, parentID) ==
    IF label = "" THEN [res |-> Err("ErrInvalidInput"), nodes |-> nodes, nextId |-> nextId]
    ELSE IF parentID # Nil /\ ~nodeExists(parentID)
    THEN [res |-> Err("ErrNodeNotFound"), nodes |-> nodes, nextId |-> nextId]
    ELSE [res |-> Ok(nextId), nodes |-> MapPut(nodes, nextId, Row(nextId, label, parentID)),
          nextId |-> nextId + 1]

\* OFFSET computed from page instead of page - 1
PgGetAllNodes_OffsetFromPage(page, pageSize) ==
    LET total == Cardinality(DOMAIN nodes)
        offset == page * pageSize
        ordered == SortById(nodes, DOMAIN nodes)
    IN  IF offset < 0 \/ pageSize < 0
        THEN [err |-> "error getting nodes", rows |-> <<>>, total |-> 0]
        ELSE [err |-> "", total |-> total,
              rows |-> Slice(ordered, Min2(offset, total), Min2(offset + pageSize, total))]

PgGetAllNodes(page, pageSize) ==
    LET total == Cardinality(DOMAIN nodes)
        offset == (page - 1) * pageSize
        ordered == SortById(nodes, DOMAIN nodes)
    IN  IF offset < 0 \/ pageSize < 0
        THEN [err |-> "error getting nodes", rows |-> <<>>, total |-> 0]
        ELSE [err |-> "", total |-> total,
              rows |-> Slice(ordered, Min2(offset, total), Min2(offset + pageSize, total))]

\* the UPDATE run before the parent is looked up
PgUpdateNode_WriteFirst(id, label, parentID) ==
    IF label = "" THEN [res |-> Err("ErrInvalidInput"), nodes |-> nodes]
    ELSE IF ~nodeExists(id) THEN [res |-> Err("ErrNodeNotFound"), nodes |-> nodes]
    ELSE IF parentID # Nil /\ ~nodeExists(parentID)
    THEN [res |-> Err("ErrNodeNotFound"), nodes |-> MapPut(nodes, id, Row(id, label, parentID))]
    ELSE [res |-> Ok(id), nodes |-> MapPut(nodes, id, Row(id, label, parentID))]

PgUpdateNode(id, label, parentID) ==
    IF label = "" THEN [res |-> Err("ErrInvalidInput"), nodes |-> nodes]
    ELSE IF ~nodeExists(id) THEN [res |-> Err("ErrNodeNotFound"), nodes |-> nodes]
    ELSE IF parentID # Nil /\ ~nodeExists(parentID)
    THEN [res |-> Err("ErrNodeNotFound"), nodes |-> nodes]
    ELSE [res |-> Ok(id), nodes |-> MapPut(nodes, id, Row(id, label, parentID))]

\* WITH RECURSIVE children: level 0 is the rows whose parent_id is id, each
\* further level the rows whose parent_id is in the level before.  UNION ALL
\* keeps no visited set, so the recursion ends only when a level is empty;
\* depth counts the levels left before more levels than rows have been
\* produced, which happens exactly when a level repeats (a parent_id cycle).
RECURSIVE PgChildrenCTE(_, _, _)
PgChildrenCTE(ns, level, depth) ==
    IF level = {} THEN [done |-> TRUE, ids |-> {}]
    ELSE IF depth = 0 THEN [done |-> FALSE, ids |-> {}]
    ELSE LET nxt == {n \in DOMAIN ns : ns[n].parent # Nil /\ ns[n].parent \in level}
             r == PgChildrenCTE(ns, nxt, depth - 1)
         IN  [done |-> r.done, ids |-> level \cup r.ids]

PgDeleteNode(id) ==
    LET cte == PgChildrenCTE(nodes, {n \in DOMAIN nodes : nodes[n].parent # Nil /\ nodes[n].parent = id},
                             Cardinality(DOMAIN nodes) + 1)
    IN  IF ~cte.done THEN [res |-> Err("error deleting child nodes"), nodes |-> nodes]
        ELSE IF id \notin DOMAIN nodes THEN [res |-> Err("ErrNodeNotFound"), nodes |-> nodes]
        ELSE [res |-> Ok(id), nodes |-> MapDrop(nodes, cte.ids \cup {id})]

\* ---- the Repository behind the handlers ---------------------------------
RepoCreateNode(label, parentID) ==
    IF repoKind = "mock" THEN MockCreateNode(label, parentID) ELSE PgCreateNode(label, parentID)

RepoGetAllNodes(page, pageSize) ==
    IF repoKind = "mock" THEN MockGetAllNodes(page, pageSize) ELSE PgGetAllNodes(page, pageSize)

RepoUpdateNode(id, label, parentID) ==
    IF repoKind = "mock" THEN MockUpdateNode(id, label, parentID) ELSE PgUpdateNode(id, label, parentID)

RepoDeleteNode(id) ==
    IF repoKind = "mock" THEN MockDeleteNode(id) ELSE PgDeleteNode(id)

\* ---- handlers.BuildTreeFromNodes -----------------------------------------
\* ids of the rows of a page: the keys of nodeMap after the first pass
PageIds(rows) == {rows[i].id : i \in 1..Len(rows)}

\* only a row without ParentID is appended to rootNodes
IsTopLevel_NilOnly(rows, i) == rows[i].parent = Nil

\* second pass, first and third branch: the row is appended to rootNodes
IsTopLevel(rows, i) == rows[i].parent = Nil \/ rows[i].parent \notin PageIds(rows)

\* AddChild puts the new child in front of the children already linked
ChildRows_Prepend(rows, id) ==
    LET kept == SelectSeq([i \in 1..Len(rows) |-> i],
                          LAMBDA i : rows[i].parent # Nil /\ rows[i].parent = id)
    IN  [k \in 1..Len(kept) |-> kept[Len(kept) + 1 - k]]

\* second pass, second branch: the rows AddChild appends to the node of id,
\* in the order the loop meets them
ChildRows(rows, id) ==
    SelectSeq([i \in 1..Len(rows) |-> i],
              LAMBDA i : rows[i].parent # Nil /\ rows[i].parent = id)

\* the models.Node of row i with the children linked under it
RECURSIVE LinkedNode(_, _)
LinkedNode(rows, i) ==
    LET kids == ChildRows(rows, rows[i].id)
    IN  TreeNode(rows[i].id, rows[i].label,
                 [k \in 1..Len(kids) |-> LinkedNode(rows, kids[k])])

\* the builder without the check of len(rootNodes) after the second pass
BuildTreeFromNodes_NoRootsCheck(rows) ==
    IF Len(rows) = 0 THEN [err |-> "ErrTreeNotFound", roots |-> <<>>]
    ELSE LET top == SelectSeq([i \in 1..Len(rows) |-> i], LAMBDA i : IsTopLevel(rows, i))
         IN  [err |-> "", roots |-> [k \in 1..Len(top) |-> LinkedNode(rows, top[k])]]

BuildTreeFromNodes(rows) ==
    IF Len(rows) = 0 THEN [err |-> "ErrTreeNotFound", roots |-> <<>>]
    ELSE LET top == SelectSeq([i \in 1..Len(rows) |-> i], LAMBDA i : IsTopLevel(rows, i))
             rootNodes == [k \in 1..Len(top) |-> LinkedNode(rows, top[k])]
         IN  IF Len(rootNodes) = 0 THEN [err |-> "ErrTreeNotFound", roots |-> <<>>]
             ELSE [err |-> "", roots |-> rootNodes]

\* ---- request validation (models.CreateNodeRequest / UpdateNodeRequest) ---
\* validate:"required,min=1,max=100" on Label, "omitempty,gt=0" on ParentID
ValidateRequest(label, parentID) ==
    /\ label # ""
    /\ Len(label) <= maxLabelLen
    /\ (parentID # Nil => parentID > 0)

\* ---- handlers.TreeHandler.GetTree ---------------------------------------
\* A query parameter as c.Query and strconv.Atoi see it: absent (""), a
\* string Atoi rejects, or an integer.
Absent == [k |-> "absent", n |-> 0]

Text == [k |-> "text", n |-> 0]

Num(n) == [k |-> "int", n |-> n]

\* no GET /tree is between its steps
NotServing == [pc |-> "idle", page |-> Absent, pageSize |-> Absent, got |-> <<>>]

\* any page that parses is used, zero and negative values included
ParsePage_AnyInt(q) == IF q.k = "int" THEN q.n ELSE 1

\* lines 81-89: page stays 1 unless the parameter parses to a positive int
ParsePage(q) == IF q.k = "int" /\ q.n > 0 THEN q.n ELSE 1

\* an out-of-range pageSize clamped instead of rejected
ParsePageSize_Clamp(q) ==
    IF q.k = "absent" THEN [status |-> 200, pageSize |-> defaultPageSize, error |-> ""]
    ELSE IF q.k = "text" THEN [status |-> 400, pageSize |-> 0, error |-> "invalid page size"]
    ELSE IF q.n <= 0 THEN [status |-> 200, pageSize |-> defaultPageSize, error |-> ""]
    ELSE IF q.n > maxPageSize THEN [status |-> 200, pageSize |-> maxPageSize, error |-> ""]
    ELSE [status |-> 200, pageSize |-> q.n, error |-> ""]

\* lines 91-107: what the parse of pageSize yields
ParsePageSize(q) ==
    IF q.k = "absent" THEN [status |-> 200, pageSize |-> defaultPageSize, error |-> ""]
    ELSE IF q.k = "text" THEN [status |-> 400, pageSize |-> 0, error |-> "invalid page size"]
    ELSE IF q.n <= 0 THEN [status |-> 400, pageSize |-> 0, error |-> "page size must be greater than 0"]
    ELSE IF q.n > maxPageSize THEN [status |-> 400, pageSize |-> 0, error |-> "page size cannot exceed 100"]
    ELSE [status |-> 200, pageSize |-> q.n, error |-> ""]

\* the quotient rounded down
CeilDiv_Floor(total, pageSize) == total \div pageSize

CeilDiv(total, pageSize) == (total + pageSize - 1) \div pageSize

\* TotalPages computed as total / pageSize + 1
ComputeResponse_PagesPlusOne(page, pageSize, got) ==
    LET totalPages == (got.total \div pageSize) + 1
        built == BuildTreeFromNodes(got.rows)
    IN  Response(IF Len(got.rows) > 0 /\ built.err = "" THEN built.roots ELSE <<>>,
                 page, pageSize, got.total, totalPages, page < totalPages, page > 1)

\* lines 123-147: the response computed from the repository's answer
ComputeResponse(page, pageSize, got) ==
    LET totalPages == CeilDiv(got.total, pageSize)
        built == BuildTreeFromNodes(got.rows)
    IN  Response(IF Len(got.rows) > 0 /\ built.err = "" THEN built.roots ELSE <<>>,
                 page, pageSize, got.total, totalPages, page < totalPages, page > 1)

\* ---- history of the provider calls, per (page, pageSize) -----------------
\* hist holds the keys SetPaginatedTree was called for since the last
\* InvalidateCache call that reached the provider's storage: "put" with the
\* time, ttl and response of the call; "retimed" once SetCacheTTL was called
\* after it; "invalidateLost" once an InvalidateCache call was made that did
\* not reach the storage.
HistPut(page, pageSize, response) ==
    MapPut(hist, <<page, pageSize>>,
           [st |-> "put", at |-> now, ttl |-> ttl, val |-> response])

HistMark(st, S) ==
    [k \in DOMAIN hist |->
        IF hist[k].st \in S
        THEN [st |-> st, at |-> 0, ttl |-> 0, val |-> NilResponse]
        ELSE hist[k]]

HistInvalidate ==
    IF Reaches THEN EmptyMap
    ELSE HistMark("invalidateLost", {"put", "retimed", "invalidateLost"})

HistRetime == HistMark("retimed", {"put"})

\* ---- input sets ---------------------------------------------------------
RequestLabelInputs == {"", "a"}
ParentInputs == 0..MaxId
RequestParentInputs == {-1} \cup ParentInputs
PageQueries == {Absent, Num(0), Num(2)}
PageSizeQueries == {Absent, Text, Num(-1), Num(0), Num(1), Num(100), Num(101)}
TTLInputs == {1}

\* ---- requests -----------------------------------------------------------
GetTree(pageQ, sizeQ) ==
    LET page == ParsePage(pageQ)
        ps == ParsePageSize(sizeQ)
        pageSize == ps.pageSize
        cached == GetPaginatedTree(page, pageSize)
        got == RepoGetAllNodes(page, pageSize)
        response == ComputeResponse(page, pageSize, got)
        out(status, body, error, calls) ==
            [op |-> "GetTree", page |-> pageQ, pageSize |-> sizeQ, status |-> status,
             body |-> body, error |-> error, calls |-> calls]
    IN  /\ UNCHANGED <<storeVars, envVars, redisUp, now>>
        /\ IF ps.status = 400
           THEN /\ resp' = out(400, NilResponse, ps.error, <<>>)
                /\ UNCHANGED <<cacheVars, hist>>
           ELSE IF cached.found
           THEN /\ resp' = out(200, cached.response, "", <<"cache.GetPaginatedTree">>)
                /\ UNCHANGED <<cacheVars, hist>>
           ELSE IF got.err # ""
           THEN /\ resp' = out(500, NilResponse, got.err,
                               <<"cache.GetPaginatedTree", "repo.GetAllNodes">>)
                /\ UNCHANGED <<cacheVars, hist>>
           ELSE IF Len(got.rows) > 0 /\ BuildTreeFromNodes(got.rows).err # ""
           THEN /\ resp' = out(200, response, "",
                               <<"cache.GetPaginatedTree", "repo.GetAllNodes">>)
                /\ UNCHANGED <<cacheVars, hist>>
           ELSE /\ SetPaginatedTree(page, pageSize, response)
                /\ hist' = HistPut(page, pageSize, response)
                /\ resp' = out(200, response, "",
                               <<"cache.GetPaginatedTree", "repo.GetAllNodes",
                                 "cache.SetPaginatedTree">>)

CreateNode(label, parentId) ==
    LET parentID == IF parentId > 0 THEN parentId ELSE Nil
        r == RepoCreateNode(label, parentID)
        out(status, id, error) ==
            [op |-> "CreateNode", status |-> status, id |-> id, error |-> error]
    IN  /\ UNCHANGED <<envVars, redisUp, now>>
        /\ IF ~ValidateRequest(label, parentId)
           THEN /\ resp' = out(400, Nil, "validation")
                /\ UNCHANGED <<storeVars, cacheVars, hist>>
           ELSE IF parentId > 0 /\ GetNode(parentID).err # ""
           THEN /\ resp' = out(404, Nil, "parent node not found")
                /\ UNCHANGED <<storeVars, cacheVars, hist>>
           ELSE IF r.res.err # ""
           THEN /\ resp' = out(500, Nil, r.res.err)
                /\ nodes' = r.nodes
                /\ nextId' = r.nextId
                /\ UNCHANGED <<cacheVars, hist>>
           ELSE /\ r.res.val <= MaxId
                /\ nodes' = r.nodes
                /\ nextId' = r.nextId
                /\ InvalidateCache
                /\ hist' = HistInvalidate
                /\ resp' = out(201, r.res.val, "")

UpdateNode(id, label, parentID) ==
    LET r == RepoUpdateNode(id, label, parentID)
        out(status, error) ==
            [op |-> "UpdateNode", id |-> id, status |-> status, error |-> error]
    IN  /\ UNCHANGED <<envVars, redisUp, now, nextId>>
        /\ IF ~ValidateRequest(label, parentID)
           THEN /\ resp' = out(400, "validation")
                /\ UNCHANGED <<nodes, cacheVars, hist>>
           ELSE IF r.res.err = "ErrNodeNotFound"
           THEN /\ resp' = out(404, "node not found")
                /\ nodes' = r.nodes
                /\ UNCHANGED <<cacheVars, hist>>
           ELSE IF r.res.err # ""
           THEN /\ resp' = out(500, r.res.err)
                /\ nodes' = r.nodes
                /\ UNCHANGED <<cacheVars, hist>>
           ELSE /\ nodes' = r.nodes
                /\ InvalidateCache
                /\ hist' = HistInvalidate
                /\ resp' = out(200, "")

\* Repository.DeleteNode: no handler calls it, it is called on the repository
DeleteNode(id) ==
    LET r == RepoDeleteNode(id)
    IN  /\ nodes' = r.nodes
        /\ resp' = [op |-> "DeleteNode", id |-> id, err |-> r.res.err,
                    existed |-> id \in DOMAIN nodes,
                    removed |-> (DOMAIN nodes) \ (DOMAIN r.nodes)]
        /\ UNCHANGED <<nextId, envVars, cacheVars, redisUp, now, hist>>

\* the clock advances
Tick ==
    /\ now < MaxTime
    /\ now' = now + 1
    /\ resp' = [op |-> "Tick"]
    /\ UNCHANGED <<storeVars, envVars, cacheVars, redisUp, hist>>

\* the Redis server becomes unreachable, or reachable again
RedisFlip ==
    /\ provider = "redis"
    /\ redisUp' = ~redisUp
    /\ resp' = [op |-> "RedisFlip"]
    /\ UNCHANGED <<storeVars, envVars, cacheVars, now, hist>>

\* ---- the service: requests, repository deletes, clock --------------------
NoCall == [op |-> "none"]

Init ==
    /\ nodes = EmptyMap
    /\ nextId = 1
    /\ repoKind \in {"mock", "postgres"}
    /\ provider = "memory"
    /\ data = EmptyMap
    /\ expiries = EmptyMap
    /\ ttl = DefaultTTL
    /\ redis = EmptyMap
    /\ redisUp = TRUE
    /\ now = 0
    /\ resp = NoCall
    /\ hist = EmptyMap
    /\ del = Idle
    /\ get = NotServing
    /\ proc = Served

Requests(sizeQueries) ==
    \/ \E pageQ \in PageQueries, sizeQ \in sizeQueries : GetTree(pageQ, sizeQ)
    \/ \E label \in RequestLabelInputs, parentId \in RequestParentInputs :
          CreateNode(label, parentId)
    \/ \E id \in 1..MaxId, label \in RequestLabelInputs, parentID \in RequestParentInputs :
          UpdateNode(id, label, parentID)

\* the requests the handlers serve, each GET stating its pageSize
NextHttp == Requests(PageSizeQueries \ {Absent})

SpecHttp == Init /\ [][NextHttp]_vars

\* the requests, each GET with the default pageSize or one that is
\* rejected, and the deletes made on the repository the handlers share
Next ==
    \/ Requests(PageSizeQueries \ {Num(1), Num(100)})
    \/ \E id \in 1..MaxId : DeleteNode(id)

Spec == Init /\ [][Next]_vars

\* create requests and repository deletes only
NextCreateDelete ==
    \/ \E label \in RequestLabelInputs, parentId \in RequestParentInputs :
          CreateNode(label, parentId)
    \/ \E id \in 1..MaxId : DeleteNode(id)

SpecCreateDelete == Init /\ [][NextCreateDelete]_vars

\* ---- the repository on its own: direct calls on Repository ---------------
PageInputs == {0, 1, 2, 3}
PageSizeInputs == {1, 2, 10}

CallCreateNode(label, parentID) ==
    LET r == RepoCreateNode(label, parentID)
    IN  /\ r.res.err = "" => r.res.val <= MaxId
        /\ nodes' = r.nodes
        /\ nextId' = r.nextId
        /\ resp' = [op |-> "repo.CreateNode", err |-> r.res.err, id |-> r.res.val]
        /\ UNCHANGED <<envVars, cacheVars, redisUp, now, hist>>

CallGetNode(id) ==
    LET r == GetNode(id)
    IN  /\ resp' = [op |-> "repo.GetNode", id |-> id, err |-> r.err]
        /\ UNCHANGED <<storeVars, envVars, cacheVars, redisUp, now, hist>>

CallGetAllNodes(page, pageSize) ==
    LET r == RepoGetAllNodes(page, pageSize)
    IN  /\ resp' = [op |-> "repo.GetAllNodes", page |-> page, pageSize |-> pageSize,
                    err |-> r.err, rows |-> r.rows, total |-> r.total]
        /\ UNCHANGED <<storeVars, envVars, cacheVars, redisUp, now, hist>>

CallUpdateNode(id, label, parentID) ==
    LET r == RepoUpdateNode(id, label, parentID)
    IN  /\ nodes' = r.nodes
        /\ resp' = [op |-> "repo.UpdateNode", id |-> id, err |-> r.res.err]
        /\ UNCHANGED <<nextId, envVars, cacheVars, redisUp, now, hist>>

NextRepo ==
    \/ \E label \in RequestLabelInputs, parentID \in ParentInputs : CallCreateNode(label, parentID)
    \/ \E id \in 1..MaxId : CallGetNode(id)
    \/ \E page \in PageInputs, pageSize \in PageSizeInputs : CallGetAllNodes(page, pageSize)
    \/ \E id \in 1..MaxId, label \in RequestLabelInputs, parentID \in ParentInputs :
          CallUpdateNode(id, label, parentID)
    \/ \E id \in 1..MaxId : DeleteNode(id)

SpecRepo == Init /\ [][NextRepo]_vars

\* ---- DeleteNode step by step, beside the other calls on Repository --------
\* m.mu is never held
MockLocked_Never == FALSE

\* MockRepository.DeleteNode holds m.mu from its first line to its return;
\* every other method takes m.mu (Lock or RLock) on its first line
MockLocked == repoKind = "mock" /\ del.pc = "loop"

\* the row of id was deleted by the open transaction, which holds its row
\* lock until it commits or rolls back
PgRowLocked(id) == repoKind = "postgres" /\ del.pc # "idle" /\ id \in del.removed

\* the INSERT of CreateNode waits for the lock of the row parent_id references
CreateWaits(label, parentID) ==
    \/ MockLocked
    \/ /\ repoKind = "postgres"
       /\ PgCreateNode(label, parentID).res.err = ""
       /\ parentID # Nil /\ PgRowLocked(parentID)

\* the UPDATE of UpdateNode waits for the lock of the row it writes and of
\* the row parent_id references
UpdateWaits(id, label, parentID) ==
    \/ MockLocked
    \/ /\ repoKind = "postgres"
       /\ PgUpdateNode(id, label, parentID).res.err = ""
       /\ (PgRowLocked(id) \/ (parentID # Nil /\ PgRowLocked(parentID)))

\* the orders in which a range over the map can meet the ids of S
Orders(S) ==
    {s \in [1..Cardinality(S) -> S] : \A i, j \in 1..Cardinality(S) : i # j => s[i] # s[j]}

\* DeleteNode is entered: the mock takes m.mu and starts its work list,
\* PostgresRepository begins its transaction
DeleteBegin(id) ==
    /\ del.pc = "idle"
    /\ del' = [pc |-> IF repoKind = "mock" THEN "loop" ELSE "children", id |-> id,
               toDelete |-> <<id>>, deleted |-> {}, removed |-> {}]
    /\ UNCHANGED <<storeVars, repoKind, provider, get, proc, cacheVars, redisUp, now, resp, hist>>

\* one pass of the loop of MockRepository.DeleteNode
MockDeleteIter ==
    /\ repoKind = "mock"
    /\ del.pc = "loop"
    /\ del.toDelete # <<>>
    /\ LET currentID == Head(del.toDelete)
           rest == Tail(del.toDelete)
       IN  IF currentID \in del.deleted
           THEN /\ del' = [del EXCEPT !.toDelete = rest]
                /\ nodes' = nodes
           ELSE \E kids \in Orders(MockChildren(nodes, currentID)) :
                   /\ del' = [del EXCEPT !.toDelete = rest \o kids,
                                         !.deleted = @ \cup {currentID},
                                         !.removed = @ \cup ({currentID} \cap DOMAIN nodes)]
                   /\ nodes' = MapDrop(nodes, {currentID})
    /\ UNCHANGED <<nextId, repoKind, provider, get, proc, cacheVars, redisUp, now, resp, hist>>

\* the work list is empty: MockRepository.DeleteNode returns nil and m.mu is
\* released
MockDeleteReturn ==
    /\ repoKind = "mock"
    /\ del.pc = "loop"
    /\ del.toDelete = <<>>
    /\ resp' = [op |-> "repo.DeleteNode", id |-> del.id, err |-> "", touched |-> del.removed]
    /\ del' = Idle
    /\ UNCHANGED <<storeVars, repoKind, provider, get, proc, cacheVars, redisUp, now, hist>>

\* the first statement of the transaction: the rows of the CTE are deleted
\* in the transaction, out of sight of the other connections; an error
\* returns through the deferred Rollback
PgDeleteChildren ==
    /\ repoKind = "postgres"
    /\ del.pc = "children"
    /\ LET cte == PgChildrenCTE(nodes,
                       {n \in DOMAIN nodes : nodes[n].parent # Nil /\ nodes[n].parent = del.id},
                       Cardinality(DOMAIN nodes) + 1)
       IN  IF ~cte.done
           THEN /\ resp' = [op |-> "repo.DeleteNode", id |-> del.id,
                            err |-> "error deleting child nodes", touched |-> {}]
                /\ del' = Idle
           ELSE /\ resp' = resp
                /\ del' = [del EXCEPT !.pc = "self", !.removed = cte.ids]
    /\ UNCHANGED <<storeVars, repoKind, provider, get, proc, cacheVars, redisUp, now, hist>>

\* a row the transaction has not deleted references id: parent_id
\* REFERENCES nodes(id) refuses the DELETE of the row of id
PgStillReferenced(id) ==
    \E n \in (DOMAIN nodes) \ del.removed : nodes[n].parent # Nil /\ nodes[n].parent = id

\* the second statement: DELETE FROM nodes WHERE id = $1, then the test of
\* RowsAffected; an error returns through the deferred Rollback
PgDeleteSelf ==
    /\ repoKind = "postgres"
    /\ del.pc = "self"
    /\ IF PgStillReferenced(del.id)
       THEN /\ resp' = [op |-> "repo.DeleteNode", id |-> del.id,
                        err |-> "error deleting node", touched |-> del.removed]
            /\ del' = Idle
       ELSE IF del.id \notin DOMAIN nodes
       THEN /\ resp' = [op |-> "repo.DeleteNode", id |-> del.id,
                        err |-> "ErrNodeNotFound", touched |-> del.removed]
            /\ del' = Idle
       ELSE /\ resp' = resp
            /\ del' = [del EXCEPT !.pc = "commit", !.removed = @ \cup {del.id}]
    /\ UNCHANGED <<storeVars, repoKind, provider, get, proc, cacheVars, redisUp, now, hist>>

\* tx.Commit(): the rows the transaction deleted leave the table at once
PgDeleteCommit ==
    /\ repoKind = "postgres"
    /\ del.pc = "commit"
    /\ nodes' = MapDrop(nodes, del.removed)
    /\ resp' = [op |-> "repo.DeleteNode", id |-> del.id, err |-> "", touched |-> del.removed]
    /\ del' = Idle
    /\ UNCHANGED <<nextId, repoKind, provider, get, proc, cacheVars, redisUp, now, hist>>

ConcLabelInputs == {"a"}

NextConc ==
    \/ \E parentID \in ParentInputs, label \in ConcLabelInputs :
          ~CreateWaits(label, parentID) /\ CallCreateNode(label, parentID)
    \/ \E id \in 1..MaxId : ~MockLocked /\ CallGetNode(id)
    \/ ~MockLocked /\ CallGetAllNodes(1, defaultPageSize)
    \/ \E id \in 1..MaxId, parentID \in ParentInputs, label \in ConcLabelInputs :
          ~UpdateWaits(id, label, parentID) /\ CallUpdateNode(id, label, parentID)
    \/ \E id \in 1..MaxId : DeleteBegin(id)
    \/ MockDeleteIter
    \/ MockDeleteReturn
    \/ PgDeleteChildren
    \/ PgDeleteSelf
    \/ PgDeleteCommit

SpecConc == Init /\ [][NextConc]_vars

\* ---- GET /tree step by step, beside the requests that write --------------
\* lines 80-113: the parameters are parsed and the cache is probed; a hit is
\* answered at once, a miss goes on to the repository
GetTreeLookup(pageQ, sizeQ) ==
    LET page == ParsePage(pageQ)
        ps == ParsePageSize(sizeQ)
        cached == GetPaginatedTree(page, ps.pageSize)
    IN  /\ get.pc = "idle"
        /\ ps.status = 200
        /\ IF cached.found
           THEN /\ resp' = [op |-> "GetTree", page |-> pageQ, pageSize |-> sizeQ,
                            status |-> 200, body |-> cached.response, error |-> "",
                            calls |-> <<"cache.GetPaginatedTree">>]
                /\ get' = get
           ELSE /\ resp' = resp
                /\ get' = [pc |-> "read", page |-> pageQ, pageSize |-> sizeQ, got |-> <<>>]
        /\ UNCHANGED <<storeVars, repoKind, provider, del, proc, cacheVars, redisUp, now, hist>>

\* lines 115-121: the page is read from the repository
GetTreeRead ==
    LET page == ParsePage(get.page)
        pageSize == ParsePageSize(get.pageSize).pageSize
        got == RepoGetAllNodes(page, pageSize)
    IN  /\ get.pc = "read"
        /\ IF got.err # ""
           THEN /\ resp' = [op |-> "GetTree", page |-> get.page, pageSize |-> get.pageSize,
                            status |-> 500, body |-> NilResponse, error |-> got.err,
                            calls |-> <<"cache.GetPaginatedTree", "repo.GetAllNodes">>]
                /\ get' = NotServing
           ELSE /\ resp' = resp
                /\ get' = [get EXCEPT !.pc = "respond", !.got = <<got>>]
        /\ UNCHANGED <<storeVars, repoKind, provider, del, proc, cacheVars, redisUp, now, hist>>

\* lines 123-153: the response is computed from what was read, stored in the
\* cache unless BuildTreeFromNodes gave ErrTreeNotFound, and returned
GetTreeRespond ==
    LET page == ParsePage(get.page)
        pageSize == ParsePageSize(get.pageSize).pageSize
        got == get.got[1]
        response == ComputeResponse(page, pageSize, got)
        out(calls) ==
            [op |-> "GetTree", page |-> get.page, pageSize |-> get.pageSize,
             status |-> 200, body |-> response, error |-> "", calls |-> calls]
    IN  /\ get.pc = "respond"
        /\ get' = NotServing
        /\ IF Len(got.rows) > 0 /\ BuildTreeFromNodes(got.rows).err # ""
           THEN /\ resp' = out(<<"cache.GetPaginatedTree", "repo.GetAllNodes">>)
                /\ UNCHANGED <<cacheVars, hist>>
           ELSE /\ SetPaginatedTree(page, pageSize, response)
                /\ hist' = HistPut(page, pageSize, response)
                /\ resp' = out(<<"cache.GetPaginatedTree", "repo.GetAllNodes",
                                 "cache.SetPaginatedTree">>)
        /\ UNCHANGED <<storeVars, repoKind, provider, del, proc, redisUp, now>>

RaceSizeQueries == {Absent, Num(1)}
RaceLabelInputs == {"a"}
RaceParentInputs == {0, 1}

NextRace ==
    \/ \E sizeQ \in RaceSizeQueries : GetTreeLookup(Absent, sizeQ)
    \/ GetTreeRead
    \/ GetTreeRespond
    \/ \E label \in RaceLabelInputs, parentId \in RaceParentInputs : CreateNode(label, parentId)
    \/ \E id \in 1..MaxId, label \in RaceLabelInputs, parentID \in RaceParentInputs :
          UpdateNode(id, label, parentID)

SpecRace == Init /\ [][NextRace]_vars

\* ---- the process: entry points, cache.mu and requests step by step -------
\* var provider CacheProvider before Initialize or SetProvider has run, and
\* after ResetProvider
NoProvider == "nil"

\* the page and pageSize of the GETs of this section
ProcPage == 1
ProcPageSize == 1
ProcLabel == "a"
ProcUpdateId == 1
ProcKinds == {"get", "create", "update"}

\* the deferred unlock never runs: the lock stays with the caller
Unlock_Kept(mu, r) == mu

\* defer mu.RUnlock() / defer mu.Unlock() of the package functions of cache:
\* requester r gives up what it holds of cache.mu when the function returns
Unlock(mu, r) == [w |-> IF mu.w = r THEN 0 ELSE mu.w, r |-> mu.r \ {r}]

\* requester r moves to pc, with cache.mu as given
ProcStep(r, pc, got, mu) ==
    proc' = [proc EXCEPT !.reqs[r].pc = pc, !.reqs[r].got = got, !.mu = mu]

\* the request of requester r is over
ProcDone(r, mu) == proc' = [proc EXCEPT !.reqs[r] = AtRest, !.mu = mu]

\* a call on the nil provider: runtime error, nil pointer dereference
Panic(r, call) == [op |-> "panic", req |-> r, call |-> call]

\* main of the HTTP server: cache.Initialize installs the Redis provider when
\* REDIS_HOST is set and the in-memory provider otherwise, then the router
\* serves
MainHttp ==
    /\ proc.entry = "none"
    /\ provider' \in {"memory", "redis"}
    /\ proc' = [proc EXCEPT !.entry = "http"]
    /\ resp' = [op |-> "main", entry |-> "http"]
    /\ UNCHANGED <<storeVars, repoKind, del, get, cacheVars, redisUp, now, hist>>

\* main of the Lambda: the repository is created and initialized and the
\* handler is started; the cache package is not touched
MainLambda ==
    /\ proc.entry = "none"
    /\ proc' = [proc EXCEPT !.entry = "lambda"]
    /\ resp' = [op |-> "main", entry |-> "lambda"]
    /\ UNCHANGED <<storeVars, repoKind, provider, del, get, cacheVars, redisUp, now, hist>>

\* a request arrives: GET /api/tree, POST /api/tree, or the update handler
\* (which the Lambda does not have)
Begin(r, kind) ==
    /\ proc.entry # "none"
    /\ proc.reqs[r].pc = "idle"
    /\ kind = "update" => proc.entry = "http"
    /\ kind = "create" =>
          Cardinality(DOMAIN nodes)
            + Cardinality({q \in Requesters : proc.reqs[q].pc = "create.repo"}) < MaxId
    /\ proc' = [proc EXCEPT !.reqs[r] =
                   [pc |-> IF kind = "get" THEN "get.lock" ELSE kind \o ".repo",
                    kind |-> kind, got |-> <<>>]]
    /\ UNCHANGED <<storeVars, repoKind, provider, del, get, cacheVars, redisUp, now,
                   resp, hist>>

\* cache.GetPaginatedTree: mu.RLock(), granted while nobody holds the write lock
CacheRLock(r) ==
    /\ proc.reqs[r].pc = "get.lock"
    /\ proc.mu.w = 0
    /\ ProcStep(r, "get.provider", <<>>, [proc.mu EXCEPT !.r = @ \cup {r}])
    /\ UNCHANGED <<storeVars, repoKind, provider, del, get, cacheVars, redisUp, now,
                   resp, hist>>

\* cache.SetPaginatedTree / cache.InvalidateCache: mu.Lock(), granted while
\* nobody holds the lock in either mode
CacheLock(r) ==
    /\ proc.reqs[r].pc \in {"set.lock", "inv.lock"}
    /\ proc.mu = Unlocked
    /\ ProcStep(r, IF proc.reqs[r].pc = "set.lock" THEN "set.provider" ELSE "inv.provider",
                proc.reqs[r].got, [proc.mu EXCEPT !.w = r])
    /\ UNCHANGED <<storeVars, repoKind, provider, del, get, cacheVars, redisUp, now,
                   resp, hist>>

\* provider.GetPaginatedTree returns inside cache.GetPaginatedTree, the
\* deferred RUnlock runs, and GetTree answers a hit or goes on to the
\* repository
ProviderGet(r) ==
    LET cached == GetPaginatedTree(ProcPage, ProcPageSize)
        mu == Unlock(proc.mu, r)
    IN  /\ proc.reqs[r].pc = "get.provider"
        /\ IF provider = NoProvider
           THEN /\ resp' = Panic(r, "cache.GetPaginatedTree")
                /\ ProcDone(r, mu)
           ELSE IF cached.found
           THEN /\ resp' = [op |-> "GetTree", req |-> r, status |-> 200,
                            body |-> cached.response,
                            calls |-> <<"cache.GetPaginatedTree">>]
                /\ ProcDone(r, mu)
           ELSE /\ resp' = resp
                /\ ProcStep(r, "get.repo", <<>>, mu)
        /\ UNCHANGED <<storeVars, repoKind, provider, del, get, cacheVars, redisUp, now,
                       hist>>

\* repo.GetAllNodes returns to GetTree
RepoRead(r) ==
    LET got == RepoGetAllNodes(ProcPage, ProcPageSize)
        out(status, body) ==
            [op |-> "GetTree", req |-> r, status |-> status, body |-> body,
             calls |-> <<"cache.GetPaginatedTree", "repo.GetAllNodes">>]
    IN  /\ proc.reqs[r].pc = "get.repo"
        /\ IF got.err # ""
           THEN /\ resp' = out(500, NilResponse)
                /\ ProcDone(r, proc.mu)
           ELSE IF Len(got.rows) > 0 /\ BuildTreeFromNodes(got.rows).err # ""
           THEN /\ resp' = out(200, ComputeResponse(ProcPage, ProcPageSize, got))
                /\ ProcDone(r, proc.mu)
           ELSE /\ resp' = resp
                /\ ProcStep(r, "set.lock", <<got>>, proc.mu)
        /\ UNCHANGED <<storeVars, repoKind, provider, del, get, cacheVars, redisUp, now,
                       hist>>

\* provider.SetPaginatedTree returns inside cache.SetPaginatedTree, the
\* deferred Unlock runs, and GetTree answers
ProviderSet(r) ==
    LET response == ComputeResponse(ProcPage, ProcPageSize, proc.reqs[r].got[1])
        mu == Unlock(proc.mu, r)
    IN  /\ proc.reqs[r].pc = "set.provider"
        /\ ProcDone(r, mu)
        /\ IF provider = NoProvider
           THEN /\ resp' = Panic(r, "cache.SetPaginatedTree")
                /\ UNCHANGED <<cacheVars, hist>>
           ELSE /\ SetPaginatedTree(ProcPage, ProcPageSize, response)
                /\ hist' = HistPut(ProcPage, ProcPageSize, response)
                /\ resp' = [op |-> "GetTree", req |-> r, status |-> 200, body |-> response,
                            calls |-> <<"cache.GetPaginatedTree", "repo.GetAllNodes",
                                        "cache.SetPaginatedTree">>]
        /\ UNCHANGED <<storeVars, repoKind, provider, del, get, redisUp, now>>

\* repo.CreateNode returns to the create handler
RepoCreate(r) ==
    LET res == RepoCreateNode(ProcLabel, Nil)
    IN  /\ proc.reqs[r].pc = "create.repo"
        /\ nodes' = res.nodes
        /\ nextId' = res.nextId
        /\ IF res.res.err # ""
           THEN /\ resp' = [op |-> "CreateNode", req |-> r, status |-> 500]
                /\ ProcDone(r, proc.mu)
           ELSE /\ resp' = resp
                /\ ProcStep(r, "inv.lock", <<res.res.val>>, proc.mu)
        /\ UNCHANGED <<repoKind, provider, del, get, cacheVars, redisUp, now, hist>>

\* repo.UpdateNode returns to UpdateNode
RepoUpdate(r) ==
    LET res == RepoUpdateNode(ProcUpdateId, ProcLabel, Nil)
    IN  /\ proc.reqs[r].pc = "update.repo"
        /\ nodes' = res.nodes
        /\ IF res.res.err # ""
           THEN /\ resp' = [op |-> "UpdateNode", req |-> r,
                            status |-> IF res.res.err = "ErrNodeNotFound" THEN 404 ELSE 500]
                /\ ProcDone(r, proc.mu)
           ELSE /\ resp' = resp
                /\ ProcStep(r, "inv.lock", <<ProcUpdateId>>, proc.mu)
        /\ UNCHANGED <<nextId, repoKind, provider, del, get, cacheVars, redisUp, now, hist>>

\* provider.InvalidateCache returns inside cache.InvalidateCache, the
\* deferred Unlock runs, and the create or update is answered
ProviderInvalidate(r) ==
    LET mu == Unlock(proc.mu, r)
    IN  /\ proc.reqs[r].pc = "inv.provider"
        /\ ProcDone(r, mu)
        /\ IF provider = NoProvider
           THEN /\ resp' = Panic(r, "cache.InvalidateCache")
                /\ UNCHANGED <<cacheVars, hist>>
           ELSE /\ InvalidateCache
                /\ hist' = HistInvalidate
                /\ resp' = IF proc.reqs[r].kind = "create"
                           THEN [op |-> "CreateNode", req |-> r, status |-> 201]
                           ELSE [op |-> "UpdateNode", req |-> r, status |-> 200]
        /\ UNCHANGED <<storeVars, repoKind, provider, del, get, redisUp, now>>

InitProc ==
    /\ nodes = EmptyMap
    /\ nextId = 1
    /\ repoKind \in {"mock", "postgres"}
    /\ provider = NoProvider
    /\ data = EmptyMap
    /\ expiries = EmptyMap
    /\ ttl = DefaultTTL
    /\ redis = EmptyMap
    /\ redisUp = TRUE
    /\ now = 0
    /\ resp = NoCall
    /\ hist = EmptyMap
    /\ del = Idle
    /\ get = NotServing
    /\ proc = [Served EXCEPT !.entry = "none"]

NextProc ==
    \/ MainHttp
    \/ MainLambda
    \/ \E r \in Requesters, kind \in ProcKinds : Begin(r, kind)
    \/ \E r \in Requesters : CacheRLock(r)
    \/ \E r \in Requesters : CacheLock(r)
    \/ \E r \in Requesters : ProviderGet(r)
    \/ \E r \in Requesters : RepoRead(r)
    \/ \E r \in Requesters : ProviderSet(r)
    \/ \E r \in Requesters : RepoCreate(r)
    \/ \E r \in Requesters : RepoUpdate(r)
    \/ \E r \in Requesters : ProviderInvalidate(r)

SpecProc == InitProc /\ [][NextProc]_vars

\* ---- GET /tree with every kind of page parameter --------------------------
PageQueryInputs == {Absent, Text, Num(-1), Num(0), Num(1), Num(2)}
PagedSizeQueries == {Absent, Num(1)}
PagedParentInputs == {0, 1}

NextPage ==
    \/ \E pageQ \in PageQueryInputs, sizeQ \in PagedSizeQueries : GetTree(pageQ, sizeQ)
    \/ \E label \in RequestLabelInputs, parentId \in PagedParentInputs :
          CreateNode(label, parentId)

SpecPage == Init /\ [][NextPage]_vars

\* ---- the tree builder on its own: BuildTreeFromNodes on a page of rows -----
\* a page is any sequence of rows with distinct ids; a ParentID may name a
\* row of the page, a row outside it (MaxId + 1 is never in a page), or itself
BuildRows == {Row(id, "node" \o IntStr(id), parent) : id \in 1..MaxId, parent \in 0..(MaxId + 1)}

Pages ==
    UNION {{s \in [1..n -> BuildRows] : \A i, j \in 1..n : i < j => s[i].id # s[j].id}
           : n \in 0..MaxId}

CallBuildTree ==
    LET built == BuildTreeFromNodes(resp.rows)
    IN  /\ resp.op = "page"
        /\ resp' = [op |-> "BuildTreeFromNodes", rows |-> resp.rows,
                    err |-> built.err, roots |-> built.roots]
        /\ UNCHANGED <<storeVars, envVars, cacheVars, redisUp, now, hist>>

\* ---- internal/lambda: buildTree ------------------------------------------
\* rootNodes of buildTree: a row without ParentID is appended to rootNodes,
\* a row whose parent is in nodeMap is appended to that parent's Children,
\* and a row whose parent is not in nodeMap is appended nowhere
buildTree(rows) ==
    LET top == SelectSeq([i \in 1..Len(rows) |-> i], LAMBDA i : rows[i].parent = Nil)
    IN  [k \in 1..Len(top) |-> LinkedNode(rows, top[k])]

\* handleGetTree, lines 93-103: the rows of the page handed to buildTree
CallLambdaBuildTree ==
    /\ resp.op = "page"
    /\ resp' = [op |-> "lambda.buildTree", rows |-> resp.rows, roots |-> buildTree(resp.rows)]
    /\ UNCHANGED <<storeVars, envVars, cacheVars, redisUp, now, hist>>

InitBuild ==
    /\ nodes = EmptyMap
    /\ nextId = 1
    /\ repoKind = "mock"
    /\ provider = "memory"
    /\ data = EmptyMap
    /\ expiries = EmptyMap
    /\ ttl = DefaultTTL
    /\ redis = EmptyMap
    /\ redisUp = TRUE
    /\ now = 0
    /\ resp \in {[op |-> "page", rows |-> p] : p \in Pages}
    /\ hist = EmptyMap
    /\ del = Idle
    /\ get = NotServing
    /\ proc = Served

\* the input slice left in the reverse of its order
RowsAfterBuild_Reversed(rows) == [i \in 1..Len(rows) |-> rows[Len(rows) + 1 - i]]

\* the input slice once BuildTreeFromNodes has returned: both passes range
\* over it and read its rows, they write only nodeMap, rootNodes and the
\* models.Node values made in the first pass
RowsAfterBuild(rows) == rows

\* BuildTreeFromNodes called a second time on the slice the first call was
\* given
CallBuildTreeAgain ==
    LET after == RowsAfterBuild(resp.rows)
        built == BuildTreeFromNodes(after)
    IN  /\ resp.op = "BuildTreeFromNodes"
        /\ resp' = [op |-> "BuildTreeFromNodes twice", rows |-> resp.rows,
                    err |-> resp.err, roots |-> resp.roots,
                    after |-> after, err2 |-> built.err, roots2 |-> built.roots]
        /\ UNCHANGED <<storeVars, envVars, cacheVars, redisUp, now, hist>>

NextBuild == CallBuildTree \/ CallBuildTreeAgain \/ CallLambdaBuildTree

SpecBuild == InitBuild /\ [][NextBuild]_vars

\* ---- the cache provider on its own: direct calls on package cache --------
CacheKeys == {<<1, 10>>, <<2, 10>>}

R1 == Response(<<TreeNode(1, "node1", <<>>)>>, 1, 2, 4, 2, TRUE, FALSE)

R2 == Response(<<TreeNode(3, "node3", <<>>)>>, 2, 2, 4, 2, FALSE, TRUE)

CacheResponses == {R1, R2}

CallGet(page, pageSize) ==
    LET r == GetPaginatedTree(page, pageSize)
    IN  /\ resp' = [op |-> "GetPaginatedTree", key |-> <<page, pageSize>>,
                    found |-> r.found, response |-> r.response]
        /\ UNCHANGED <<storeVars, envVars, cacheVars, redisUp, now, hist>>

CallSet(page, pageSize, response) ==
    /\ SetPaginatedTree(page, pageSize, response)
    /\ hist' = HistPut(page, pageSize, response)
    /\ resp' = [op |-> "SetPaginatedTree", key |-> <<page, pageSize>>,
                replaced |-> GetPaginatedTree(page, pageSize).found]
    /\ UNCHANGED <<storeVars, envVars, redisUp, now>>

CallInvalidate ==
    /\ InvalidateCache
    /\ hist' = HistInvalidate
    /\ resp' = [op |-> "InvalidateCache", had |-> DOMAIN hist]
    /\ UNCHANGED <<storeVars, envVars, redisUp, now>>

CallSetTTL(t) ==
    /\ SetCacheTTL(t)
    /\ hist' = HistRetime
    /\ resp' = [op |-> "SetCacheTTL"]
    /\ UNCHANGED <<storeVars, envVars, redisUp, now>>

InitCache ==
    /\ nodes = EmptyMap
    /\ nextId = 1
    /\ repoKind = "mock"
    /\ provider \in {"memory", "redis"}
    /\ data = EmptyMap
    /\ expiries = EmptyMap
    /\ ttl = DefaultTTL
    /\ redis = EmptyMap
    /\ redisUp = TRUE
    /\ now = 0
    /\ resp = NoCall
    /\ hist = EmptyMap
    /\ del = Idle
    /\ get = NotServing
    /\ proc = Served

NextCache ==
    \/ \E k \in CacheKeys : CallGet(k[1], k[2])
    \/ \E k \in CacheKeys, r \in CacheResponses : CallSet(k[1], k[2], r)
    \/ CallInvalidate
    \/ \E t \in TTLInputs : CallSetTTL(t)
    \/ Tick
    \/ RedisFlip

SpecCache == InitCache /\ [][NextCache]_vars

\* ---- the handlers in front of the Redis provider, Redis coming and going --
InitRedis ==
    /\ nodes = EmptyMap
    /\ nextId = 1
    /\ repoKind \in {"mock", "postgres"}
    /\ provider = "redis"
    /\ data = EmptyMap
    /\ expiries = EmptyMap
    /\ ttl = DefaultTTL
    /\ redis = EmptyMap
    /\ redisUp = TRUE
    /\ now = 0
    /\ resp = NoCall
    /\ hist = EmptyMap
    /\ del = Idle
    /\ get = NotServing
    /\ proc = Served

RedisParentInputs == {-1, 0, 1}

\* GET of the first page with the default pageSize or a rejected one, and
\* creates and updates under the first node or under none
NextRedis ==
    \/ \E sizeQ \in {Absent, Num(0)} : GetTree(Absent, sizeQ)
    \/ \E label \in RequestLabelInputs, parentId \in RedisParentInputs :
          CreateNode(label, parentId)
    \/ \E id \in 1..MaxId, label \in RequestLabelInputs, parentID \in RedisParentInputs :
          UpdateNode(id, label, parentID)
    \/ RedisFlip

SpecRedis == InitRedis /\ [][NextRedis]_vars

\* ---- the cache keys: provider calls on pairs whose digits overlap ---------
KeyInputs == {<<1, 1>>, <<1, 11>>, <<11, 1>>, <<2, 1>>}

NextKeys ==
    \/ \E k \in KeyInputs : CallGet(k[1], k[2])
    \/ \E k \in KeyInputs, r \in CacheResponses : CallSet(k[1], k[2], r)
    \/ CallInvalidate

SpecKeys == InitCache /\ [][NextKeys]_vars

\* ======================== properties ======================================
\* ---- reference definitions, written from the parent relation alone -------
Count(ns) == Cardinality(DOMAIN ns)

\* a is a proper ancestor of n along par, within fuel steps
RECURSIVE UpChain(_, _, _, _)
UpChain(par, n, a, fuel) ==
    /\ fuel > 0
    /\ n \in DOMAIN par
    /\ par[n] # Nil
    /\ (par[n] = a \/ UpChain(par, par[n], a, fuel - 1))

ParentOf(ns) == [n \in DOMAIN ns |-> ns[n].parent]

\* id and the nodes that have id among their ancestors
Subtree(ns, id) ==
    {id} \cup {n \in DOMAIN ns : UpChain(ParentOf(ns), n, id, Count(ns))}

Acyclic(ns) == \A n \in DOMAIN ns : ~UpChain(ParentOf(ns), n, n, Count(ns))

\* the (page, pageSize) pairs the requests of the model can ask for
RequestKeys ==
    {<<ParsePage(p), ParsePageSize(q).pageSize>> :
        p \in PageQueries, q \in {x \in PageSizeQueries : ParsePageSize(x).status = 200}}

\* ---- C1 -------------------------------------------------------------------
\* C1: every successful create, update or delete of a node has invalidated
\* the whole cache by the time the call completes, so that right after it a
\* lookup of any (page, pageSize) key is a miss.
MutationDone ==
    \/ resp.op = "CreateNode" /\ resp.status = 201
    \/ resp.op = "UpdateNode" /\ resp.status = 200
    \/ resp.op = "DeleteNode" /\ resp.err = "" /\ resp.existed

C1_InvalidateAfterMutation ==
    MutationDone => \A k \in RequestKeys : ~GetPaginatedTree(k[1], k[2]).found

C3_DeleteCascade ==
    [][(resp'.op = "DeleteNode" /\ resp'.err = "" /\ resp'.existed)
          => /\ \A n \in Subtree(nodes, resp'.id) : GetNode(n)'.err = "ErrNodeNotFound"
             /\ \A n \in (DOMAIN nodes) \ Subtree(nodes, resp'.id) :
                   GetNode(n)' = Ok(nodes[n])
             /\ DOMAIN nodes' \subseteq DOMAIN nodes]_vars

\* a delete removed a node together with at least one descendant and left
\* another node in the store
C3_Witness ==
    /\ resp.op = "DeleteNode"
    /\ resp.err = ""
    /\ resp.existed
    /\ Cardinality(resp.removed) >= 2
    /\ nodes # EmptyMap

\* ---- C4 -------------------------------------------------------------------
RECURSIVE NodeIds(_)
NodeIds(t) == {t.id} \cup UNION {NodeIds(t.children[k]) : k \in 1..Len(t.children)}

\* the ParentID of each row of the page, by id
PageParents(rows) ==
    [id \in {rows[i].id : i \in 1..Len(rows)} |->
        rows[CHOOSE i \in 1..Len(rows) : rows[i].id = id].parent]

\* the rows of the page that have id among their ancestors in the page
PageDescendants(rows, id) ==
    {n \in DOMAIN PageParents(rows) : UpChain(PageParents(rows), n, id, Len(rows))}

IsOrphan(rows, i) ==
    /\ rows[i].parent # Nil
    /\ \A j \in 1..Len(rows) : rows[j].id # rows[i].parent

\* C4: BuildTreeFromNodes returns a row whose non-null parent is not in the
\* page as a top-level node, with the row's descendants in the page under
\* it, and returns no error.
C4_OrphanIsTopLevel ==
    resp.op = "BuildTreeFromNodes" =>
        \A i \in 1..Len(resp.rows) :
            IsOrphan(resp.rows, i) =>
                /\ resp.err = ""
                /\ \E k \in 1..Len(resp.roots) :
                      /\ resp.roots[k].id = resp.rows[i].id
                      /\ resp.roots[k].label = resp.rows[i].label
                      /\ NodeIds(resp.roots[k]) =
                            {resp.rows[i].id} \cup PageDescendants(resp.rows, resp.rows[i].id)

\* a page with an orphan that has a child in the page was built
C4_Witness ==
    /\ resp.op = "BuildTreeFromNodes"
    /\ resp.err = ""
    /\ \E i \in 1..Len(resp.rows) :
          /\ IsOrphan(resp.rows, i)
          /\ PageDescendants(resp.rows, resp.rows[i].id) # {}
          /\ \E k \in 1..Len(resp.roots) :
                resp.roots[k].id = resp.rows[i].id /\ Len(resp.roots[k].children) > 0

\* ---- C5 -------------------------------------------------------------------
\* C5: with the in-memory provider, a response stored with TTL T and neither
\* invalidated nor re-timed since is returned, found=true, by a lookup made
\* before T has elapsed, and a lookup made after T has elapsed is a miss.
C5_TTLExpiry ==
    provider = "memory" =>
        \A k \in DOMAIN hist :
            hist[k].st = "put" =>
                /\ now < hist[k].at + hist[k].ttl
                      => GetPaginatedTree(k[1], k[2]) = Hit(hist[k].val)
                /\ now > hist[k].at + hist[k].ttl
                      => ~GetPaginatedTree(k[1], k[2]).found

\* a lookup made after the TTL of a stored response had elapsed was a miss
C5_Witness ==
    /\ provider = "memory"
    /\ resp.op = "GetPaginatedTree"
    /\ ~resp.found
    /\ resp.key \in DOMAIN hist
    /\ hist[resp.key].st = "put"
    /\ now > hist[resp.key].at + hist[resp.key].ttl

\* ---- C6 -------------------------------------------------------------------
\* the members of a set of ids in ascending order
Ascending(S) ==
    [i \in 1..Cardinality(S) |-> CHOOSE x \in S : Cardinality({y \in S : y < x}) = i - 1]

\* the tree under id: its children are the nodes naming it as parent
RECURSIVE TreeOf(_, _, _)
TreeOf(ns, id, fuel) ==
    LET kids == Ascending({n \in DOMAIN ns : ns[n].parent = id})
    IN  TreeNode(id, ns[id].label,
                 IF fuel = 0 THEN <<>>
                 ELSE [i \in 1..Len(kids) |-> TreeOf(ns, kids[i], fuel - 1)])

\* the forest of a store: the trees under its nodes without parent
Forest(ns) ==
    LET roots == Ascending({n \in DOMAIN ns : ns[n].parent = Nil})
    IN  [i \in 1..Len(roots) |-> TreeOf(ns, roots[i], Count(ns))]

\* the page and pageSize a GET asks for
AskedPage(r) == IF r.page.k = "int" /\ r.page.n >= 1 THEN r.page.n ELSE 1

AskedSize(r) == IF r.pageSize.k = "int" THEN r.pageSize.n ELSE 10

SizeInRange(q) == q.k = "absent" \/ (q.k = "int" /\ q.n >= 1 /\ q.n <= 100)

\* C6: when the requested page holds every node and the parent relation has
\* no cycle, GET /tree answers with the forest of the store: the roots are
\* the nodes without parent in ascending id order, the children of each node
\* are the nodes naming it as parent in ascending id order, and total is the
\* number of nodes.
C6_ForestExact ==
    (/\ resp.op = "GetTree"
     /\ SizeInRange(resp.pageSize)
     /\ AskedPage(resp) = 1
     /\ Count(nodes) <= AskedSize(resp)
     /\ Acyclic(nodes))
        => /\ resp.status = 200
           /\ resp.body.data = Forest(nodes)
           /\ resp.body.total = Count(nodes)

\* ---- C7 -------------------------------------------------------------------
\* C7: a CreateNode that succeeds returns an id no node of the store had,
\* adds one node and leaves every node that was there as it was.
C7_FreshId ==
    [][(resp'.op = "repo.CreateNode" /\ resp'.err = "")
          => /\ resp'.id \notin DOMAIN nodes
             /\ Count(nodes') = Count(nodes) + 1
             /\ \A n \in DOMAIN nodes : n \in DOMAIN nodes' /\ nodes'[n] = nodes[n]]_vars

\* ---- C8 -------------------------------------------------------------------
\* position of a node among the nodes listed by ascending id, from 0
Position(id) == Cardinality({m \in DOMAIN nodes : m < id})

\* the ids at positions lo .. hi - 1
Window(lo, hi) == {n \in DOMAIN nodes : lo <= Position(n) /\ Position(n) < hi}

\* C8: GetAllNodes(page, pageSize) with page >= 1 returns, in ascending id
\* order, the rows at positions (page-1)*pageSize up to page*pageSize - 1 of
\* all nodes, and total is the number of nodes in the store.
C8_PageWindow ==
    (resp.op = "repo.GetAllNodes" /\ resp.page >= 1) =>
        LET ids == Ascending(Window((resp.page - 1) * resp.pageSize,
                                    resp.page * resp.pageSize))
        IN  /\ resp.err = ""
            /\ resp.total = Count(nodes)
            /\ resp.rows = [i \in 1..Len(ids) |-> nodes[ids[i]]]

\* the second page of size 2 of a store of three nodes held the third node
C8_Witness ==
    /\ resp.op = "repo.GetAllNodes"
    /\ resp.page = 2
    /\ resp.pageSize = 2
    /\ Count(nodes) = 3
    /\ Len(resp.rows) = 1

PageIsEmpty(r) == (AskedPage(r) - 1) * AskedSize(r) >= Count(nodes)

IsSetFor(k) == \E r \in CacheResponses : CallSet(k[1], k[2], r)

\* C11: a key that is a miss, by TTL expiry or by invalidation, stays a miss
\* until SetPaginatedTree is called for that key, whatever SetCacheTTL or
\* InvalidateCache calls are made in between (the provider's storage being
\* reachable before and after the step).
C11_MissUntilSet ==
    [][\A k \in CacheKeys :
          (Reaches /\ Reaches' /\ ~GetPaginatedTree(k[1], k[2]).found /\ ~IsSetFor(k))
              => ~GetPaginatedTree(k[1], k[2])'.found]_vars

\* ---- C12 ------------------------------------------------------------------
\* C12: a lookup made at or after the expiry of a stored response, put time
\* plus ttl, is a miss; at the instant now = put time + ttl it is already one.
C12_MissAtExpiry ==
    \A k \in DOMAIN hist :
        (hist[k].st = "put" /\ now >= hist[k].at + hist[k].ttl)
            => ~GetPaginatedTree(k[1], k[2]).found

\* ---- C13 ------------------------------------------------------------------
\* C13: SetPaginatedTree(p, s, R) leaves the result of GetPaginatedTree for
\* every other (page, pageSize) pair as it was, so a response is returned
\* only for the pair it was stored under, and no two distinct pairs have the
\* same cache key.
C13_KeyIsolation ==
    [][\A k \in KeyInputs : \A other \in KeyInputs \ {k} :
          /\ getCacheKey(k[1], k[2]) # getCacheKey(other[1], other[2])
          /\ getRedisKey(k[1], k[2]) # getRedisKey(other[1], other[2])
          /\ (\E r \in CacheResponses : CallSet(k[1], k[2], r))
                => GetPaginatedTree(other[1], other[2])' = GetPaginatedTree(other[1], other[2])]_vars

\* (1,11) and (11,1) hold different responses after a SetPaginatedTree call
C13_Witness ==
    /\ resp.op = "SetPaginatedTree"
    /\ GetPaginatedTree(1, 11) = Hit(R1)
    /\ GetPaginatedTree(11, 1) = Hit(R2)
    /\ ~GetPaginatedTree(1, 1).found

\* ---- C14 ------------------------------------------------------------------
\* the page a GET computes from the store when nothing is cached
FreshPage(r) ==
    ComputeResponse(AskedPage(r), AskedSize(r), RepoGetAllNodes(AskedPage(r), AskedSize(r)))

\* C14: while the Redis provider cannot reach Redis, no request changes what
\* Redis holds and none answers 500; a GET with a pageSize in range answers
\* 200 with the page computed from the store by that request; a create or an
\* update changes the store exactly when it answers 201 or 200.
C14_RedisDown ==
    [][(provider = "redis" /\ ~redisUp /\ ~redisUp') =>
          /\ redis' = redis
          /\ resp'.status # 500
          /\ (resp'.op = "GetTree" /\ SizeInRange(resp'.pageSize)) =>
                /\ resp'.status = 200
                /\ resp'.body = FreshPage(resp')
                /\ resp'.body.total = Count(nodes)
                /\ \E i \in 1..Len(resp'.calls) : resp'.calls[i] = "repo.GetAllNodes"
          /\ resp'.op = "CreateNode" =>
                IF resp'.status = 201
                THEN resp'.id \in DOMAIN nodes' /\ nodes' # nodes
                ELSE nodes' = nodes
          /\ resp'.op = "UpdateNode" =>
                IF resp'.status = 200
                THEN resp'.id \in DOMAIN nodes /\ DOMAIN nodes' = DOMAIN nodes
                ELSE nodes' = nodes]_vars

\* with Redis unreachable a GET answered the page of the store although
\* Redis held another response under its key
C14_Witness ==
    /\ provider = "redis"
    /\ ~redisUp
    /\ resp.op = "GetTree"
    /\ resp.status = 200
    /\ getRedisKey(AskedPage(resp), AskedSize(resp)) \in DOMAIN redis
    /\ jsonUnmarshal(redis[getRedisKey(AskedPage(resp), AskedSize(resp))].val) # resp.body
    /\ resp.body.total = Count(nodes)

\* ---- C16 ------------------------------------------------------------------
\* C16: a create request with a valid label whose parentId is positive and
\* names no node of the store answers 404 'parent node not found' and leaves
\* the store as it was.
C16_CreateParentNotFound ==
    [][\A label \in RequestLabelInputs, parentId \in RequestParentInputs :
          (/\ resp'.op = "CreateNode"
           /\ label # ""
           /\ parentId > 0
           /\ parentId \notin DOMAIN nodes
           /\ CreateNode(label, parentId))
              => /\ resp'.status = 404
                 /\ resp'.error = "parent node not found"
                 /\ nodes' = nodes
                 /\ nextId' = nextId]_vars

\* a create under a missing parent was refused while the store held nodes
C16_Witness ==
    /\ resp.op = "CreateNode"
    /\ resp.status = 404
    /\ Count(nodes) >= 2

\* ---- C17 ------------------------------------------------------------------
\* C17: an update request with an empty label is refused as invalid input
\* (400); with a valid label it is refused as not found (404) when the id
\* names no node and also when a non-null parentId names no node; a refused
\* update changes no node.
C17_UpdateFailures ==
    [][\A id \in 1..MaxId, label \in RequestLabelInputs, parentID \in ParentInputs :
          (resp'.op = "UpdateNode" /\ UpdateNode(id, label, parentID))
              => /\ label = "" => resp'.status = 400
                 /\ (label # "" /\ id \notin DOMAIN nodes) => resp'.status = 404
                 /\ (label # "" /\ parentID # Nil /\ parentID \notin DOMAIN nodes)
                       => resp'.status = 404
                 /\ resp'.status # 200 => nodes' = nodes]_vars

\* ---- C18 ------------------------------------------------------------------
\* C18: DeleteNode on an id that names no node returns ErrNodeNotFound and
\* removes nothing.
C18_DeleteNotFound ==
    (resp.op = "DeleteNode" /\ ~resp.existed)
        => (resp.err = "ErrNodeNotFound" /\ resp.removed = {})

\* ---- C19 ------------------------------------------------------------------
\* the place of the row of id in the page
RowIndex(rows, id) == CHOOSE i \in 1..Len(rows) : rows[i].id = id

\* the entries of list, and of every children list below them, come in the
\* order of their rows in the page
RECURSIVE ListsInRowOrder(_, _)
ListsInRowOrder(rows, list) ==
    /\ \A a, b \in 1..Len(list) :
          a < b => RowIndex(rows, list[a].id) < RowIndex(rows, list[b].id)
    /\ \A a \in 1..Len(list) : ListsInRowOrder(rows, list[a].children)

\* the entries of list, and of every children list below them, come in
\* ascending id order
RECURSIVE ListsAscending(_)
ListsAscending(list) ==
    /\ \A a, b \in 1..Len(list) : a < b => list[a].id < list[b].id
    /\ \A a \in 1..Len(list) : ListsAscending(list[a].children)

RowsAscending(rows) == \A i, j \in 1..Len(rows) : i < j => rows[i].id < rows[j].id

\* C19: BuildTreeFromNodes lists the top-level entries in the order of their
\* rows in the input, and the children of every node in the order of their
\* rows in the input; for a page in ascending id order every list of the
\* result is in ascending id order.
C19_RowOrder ==
    (resp.op = "BuildTreeFromNodes" /\ resp.err = "") =>
        /\ ListsInRowOrder(resp.rows, resp.roots)
        /\ RowsAscending(resp.rows) => ListsAscending(resp.roots)

\* a page that is not in ascending order was built into a tree whose root
\* lists two children in the descending order of their rows
C19_Witness ==
    /\ resp.op = "BuildTreeFromNodes"
    /\ resp.err = ""
    /\ ~RowsAscending(resp.rows)
    /\ \E k \in 1..Len(resp.roots) :
          /\ Len(resp.roots[k].children) = 2
          /\ resp.roots[k].children[1].id > resp.roots[k].children[2].id

\* ---- C20 ------------------------------------------------------------------
\* every row of the page names a parent that is a row of the page
AllParentsInPage(rows) ==
    \A i \in 1..Len(rows) :
        rows[i].parent # Nil /\ \E j \in 1..Len(rows) : rows[j].id = rows[i].parent

\* some row of the page is its own ancestor along the parents in the page
PageHasCycle(rows) ==
    \E i \in 1..Len(rows) :
        UpChain(PageParents(rows), rows[i].id, rows[i].id, Len(rows))

\* C20: BuildTreeFromNodes signals ErrTreeNotFound for an empty page, and for
\* every non-empty page it returns at least one top-level entry, so that the
\* check of zero roots after linking never fires.
C20_NonEmptyHasRoot ==
    resp.op = "BuildTreeFromNodes" =>
        IF Len(resp.rows) = 0 THEN resp.err = "ErrTreeNotFound"
        ELSE resp.err = "" /\ Len(resp.roots) >= 1

\* C20 (amended): BuildTreeFromNodes signals ErrTreeNotFound for an empty
\* page and for a non-empty page in which every row names a parent that is
\* in the page, which takes a parent cycle inside the page; for every other
\* page, so for every page without such a cycle, it returns at least one
\* top-level entry and no error.
C20_RootsUnlessAllLinked ==
    resp.op = "BuildTreeFromNodes" =>
        /\ Len(resp.rows) = 0 => resp.err = "ErrTreeNotFound"
        /\ (Len(resp.rows) > 0 /\ AllParentsInPage(resp.rows))
              => (resp.err = "ErrTreeNotFound" /\ PageHasCycle(resp.rows))
        /\ (Len(resp.rows) > 0 /\ ~AllParentsInPage(resp.rows))
              => (resp.err = "" /\ Len(resp.roots) >= 1)
        /\ (Len(resp.rows) > 0 /\ ~PageHasCycle(resp.rows))
              => (resp.err = "" /\ Len(resp.roots) >= 1)
        /\ resp.err # "" => Len(resp.roots) = 0

\* a page of two rows that are each other's parent was built and gave
\* ErrTreeNotFound
C20_Witness ==
    /\ resp.op = "BuildTreeFromNodes"
    /\ Len(resp.rows) = 2
    /\ resp.rows[1].parent = resp.rows[2].id
    /\ resp.rows[2].parent = resp.rows[1].id
    /\ resp.err = "ErrTreeNotFound"

\* ---- C15 ------------------------------------------------------------------
\* C15: deletion is all-or-nothing under concurrency: a GetNode, GetAllNodes,
\* CreateNode or UpdateNode that runs while a DeleteNode is in progress reads
\* a store from which none of the rows that DeleteNode has removed so far is
\* missing; when DeleteNode returns without error the node is gone and no
\* row that is left names a removed row as its parent; when it returns an
\* error it has removed nothing.
C15_DeleteAtomic ==
    [][/\ (del.pc # "idle" /\ del' = del) => del.removed \subseteq DOMAIN nodes
       /\ (del.pc # "idle" /\ del'.pc = "idle") =>
             IF resp'.err = ""
             THEN /\ del.id \notin DOMAIN nodes'
                  /\ resp'.touched \cap DOMAIN nodes' = {}
                  /\ \A n \in DOMAIN nodes' :
                        nodes'[n].parent \notin (resp'.touched \cup {del.id})
             ELSE /\ nodes' = nodes
                  /\ del.removed \subseteq DOMAIN nodes']_vars

\* a DeleteNode that had deleted descendants in its transaction met a child
\* created under the node meanwhile, returned an error, and every row is
\* still in the store
C15_Witness ==
    /\ resp.op = "repo.DeleteNode"
    /\ resp.err = "error deleting node"
    /\ resp.touched # {}
    /\ resp.touched \cup {resp.id} \subseteq DOMAIN nodes
    /\ \E n \in (DOMAIN nodes) \ resp.touched : nodes[n].parent = resp.id

\* ---- C21 ------------------------------------------------------------------
\* the number of pages of pageSize rows that hold total rows
PagesNeeded(total, pageSize) ==
    CHOOSE n \in 0..total : n * pageSize >= total /\ (n = 0 \/ (n - 1) * pageSize < total)

\* the ids of the rows GetAllNodes returns for the page
PageRowIds(page, pageSize) ==
    LET rows == RepoGetAllNodes(page, pageSize).rows
    IN  {rows[i].id : i \in 1..Len(rows)}

\* the row counts of pages 1 .. page added up
RECURSIVE RowsUpTo(_, _)
RowsUpTo(page, pageSize) ==
    IF page = 0 THEN 0
    ELSE Len(RepoGetAllNodes(page, pageSize).rows) + RowsUpTo(page - 1, pageSize)

\* C21: for a fixed pageSize and an unchanging store, the pages 1..totalPages
\* returned by GetAllNodes are pairwise disjoint, together they contain every
\* node exactly once, and their row counts add up to the total returned with
\* page 1.
C21_PagesPartition ==
    \A pageSize \in PageSizeInputs :
        LET total == RepoGetAllNodes(1, pageSize).total
            last == PagesNeeded(total, pageSize)
        IN  /\ \A p, q \in 1..last : p # q =>
                  PageRowIds(p, pageSize) \cap PageRowIds(q, pageSize) = {}
            /\ \A p \in 1..last :
                  /\ RepoGetAllNodes(p, pageSize).err = ""
                  /\ Cardinality(PageRowIds(p, pageSize)) = Len(RepoGetAllNodes(p, pageSize).rows)
            /\ UNION {PageRowIds(p, pageSize) : p \in 1..last} = DOMAIN nodes
            /\ RowsUpTo(last, pageSize) = total

\* the third page of size 1 of a store of three nodes was read and held the
\* node of the highest id
C21_Witness ==
    /\ resp.op = "repo.GetAllNodes"
    /\ resp.pageSize = 1
    /\ resp.page = 3
    /\ Count(nodes) = 3
    /\ Len(resp.rows) = 1
    /\ \A n \in DOMAIN nodes : n <= resp.rows[1].id

\* ---- C22 ------------------------------------------------------------------
\* C22: GetAllNodes called with page < 1 returns an empty slice and no error.
C22_PageBelowOne ==
    (resp.op = "repo.GetAllNodes" /\ resp.page < 1) => (resp.err = "" /\ resp.rows = <<>>)

\* ---- C23 ------------------------------------------------------------------
\* the GET was answered from the repository, not from the cache
FromStore(r) == \E i \in 1..Len(r.calls) : r.calls[i] = "repo.GetAllNodes"

PageInvalid(q) == q.k = "text" \/ (q.k = "int" /\ q.n <= 0)

\* C24: GET /tree with an invalid page value (non-numeric, zero or negative)
\* is rejected with status 400.
C24_PageRejected ==
    (resp.op = "GetTree" /\ PageInvalid(resp.page)) => resp.status = 400

\* C24 (amended): GET /tree with an invalid page value (non-numeric, zero or
\* negative) and an acceptable pageSize is not rejected: it is answered 200
\* with page 1, from the cache when the cache holds page 1 and from the
\* store otherwise.
C24_PageFallsBackToOne ==
    [][(resp'.op = "GetTree" /\ PageInvalid(resp'.page) /\ SizeInRange(resp'.pageSize)) =>
          LET pageSize == AskedSize(resp')
              cached == GetPaginatedTree(1, pageSize)
          IN  /\ resp'.status = 200
              /\ resp'.body.page = 1
              /\ resp'.body = IF cached.found THEN cached.response
                              ELSE ComputeResponse(1, pageSize, RepoGetAllNodes(1, pageSize))]_vars

\* a GET with a non-numeric page was answered 200 with the first page of a
\* store of two nodes
C24_Witness ==
    /\ resp.op = "GetTree"
    /\ resp.page = Text
    /\ resp.pageSize = Num(1)
    /\ resp.status = 200
    /\ resp.body.page = 1
    /\ resp.body.total = 2
    /\ Len(resp.body.data) = 1

\* ---- C25 ------------------------------------------------------------------
\* C25: with the in-memory provider, SetPaginatedTree on a key that already
\* holds an entry replaces it: the entry's expiry is reset to the time of
\* this put plus ttl, and a lookup of the key within that time returns the
\* newly stored response.
C25_SetReplaces ==
    [][\A k \in CacheKeys, r \in CacheResponses :
          (/\ resp'.op = "SetPaginatedTree"
           /\ provider = "memory"
           /\ getCacheKey(k[1], k[2]) \in DOMAIN data
           /\ CallSet(k[1], k[2], r))
              => /\ data'[getCacheKey(k[1], k[2])] = r
                 /\ expiries'[getCacheKey(k[1], k[2])] = now + ttl
                 /\ GetPaginatedTree(k[1], k[2])' = Hit(r)]_vars

\* a key that held a live entry put one tick earlier was put again with the
\* other response, and its expiry counts from the second put
C25_Witness ==
    /\ provider = "memory"
    /\ resp.op = "SetPaginatedTree"
    /\ resp.replaced
    /\ now >= 1
    /\ hist[resp.key] = [st |-> "put", at |-> now, ttl |-> ttl, val |-> R2]
    /\ data[getCacheKey(resp.key[1], resp.key[2])] = R2
    /\ expiries[getCacheKey(resp.key[1], resp.key[2])] = now + ttl

RECURSIVE FlatIds(_)
FlatIds(list) ==
    IF list = <<>> THEN <<>>
    ELSE <<Head(list).id>> \o FlatIds(Head(list).children) \o FlatIds(Tail(list))

\* the pairs <<id of a TreeNode, id of one of its children>> of a forest
RECURSIVE Links(_)
Links(list) ==
    UNION {{<<list[a].id, list[a].children[b].id>> : b \in 1..Len(list[a].children)}
              \cup Links(list[a].children) : a \in 1..Len(list)}

\* the pairs <<id, label>> of the TreeNodes of a forest
RECURSIVE Labelled(_)
Labelled(list) ==
    UNION {{<<list[a].id, list[a].label>>} \cup Labelled(list[a].children) : a \in 1..Len(list)}

ParentInPage(rows, i) ==
    rows[i].parent # Nil /\ \E j \in 1..Len(rows) : rows[j].id = rows[i].parent

\* C29: for a page whose in-page parent references contain no cycle, every
\* row appears exactly once in the forest BuildTreeFromNodes returns:
\* directly under the TreeNode of its parent when the parent row is in the
\* page, wherever the two rows stand in the input, and at top level
\* otherwise; each TreeNode carries its row's id and label.
C29_EveryRowOnce ==
    (resp.op = "BuildTreeFromNodes" /\ Len(resp.rows) > 0 /\ ~PageHasCycle(resp.rows)) =>
        LET rows == resp.rows
            flat == FlatIds(resp.roots)
        IN  /\ resp.err = ""
            /\ Len(flat) = Len(rows)
            /\ {flat[i] : i \in 1..Len(flat)} = {rows[i].id : i \in 1..Len(rows)}
            /\ Links(resp.roots) =
                  {<<rows[i].parent, rows[i].id>> : i \in {j \in 1..Len(rows) : ParentInPage(rows, j)}}
            /\ {resp.roots[k].id : k \in 1..Len(resp.roots)} =
                  {rows[i].id : i \in {j \in 1..Len(rows) : ~ParentInPage(rows, j)}}
            /\ Labelled(resp.roots) = {<<rows[i].id, rows[i].label>> : i \in 1..Len(rows)}

\* a page of three rows in which each row's parent is the row after it was
\* built into one chain
C29_Witness ==
    /\ resp.op = "BuildTreeFromNodes"
    /\ Len(resp.rows) = 3
    /\ resp.rows[1].parent = resp.rows[2].id
    /\ resp.rows[2].parent = resp.rows[3].id
    /\ ~ParentInPage(resp.rows, 3)
    /\ Len(resp.roots) = 1
    /\ resp.roots[1].id = resp.rows[3].id
    /\ FlatIds(resp.roots) = <<resp.rows[3].id, resp.rows[2].id, resp.rows[1].id>>

\* ---- C30 ------------------------------------------------------------------
\* C30: an update request that supplies only a label (no parentId) and is
\* answered 200 changes only that node's label: the node keeps its parent_id
\* and no other node changes.
C30_LabelOnlyUpdate ==
    [][\A id \in 1..MaxId, label \in RequestLabelInputs :
          (/\ resp'.op = "UpdateNode"
           /\ resp'.status = 200
           /\ resp'.id = id
           /\ UpdateNode(id, label, Nil))
              => /\ DOMAIN nodes' = DOMAIN nodes
                 /\ nodes'[id].label = label
                 /\ nodes'[id].parent = nodes[id].parent
                 /\ \A n \in (DOMAIN nodes) \ {id} : nodes'[n] = nodes[n]]_vars

\* ---- C28 ------------------------------------------------------------------
\* C28: in every reachable state, whatever the order in which create, update
\* and delete calls run, every non-null parent_id is the id of a node that
\* is in the store.
C28_NoDanglingParent ==
    \A n \in DOMAIN nodes : nodes[n].parent # Nil => nodes[n].parent \in DOMAIN nodes

\* ---- C27 ------------------------------------------------------------------
\* C27: whatever the order in which the steps of GET and of create and
\* update requests run, once a mutating request has completed no GET that
\* starts afterwards is served, within the TTL, a cached page that was
\* computed from the store as it was before that mutation: a GET answered
\* from the cache returns the page the store gives when the GET starts.
C27_NoStalePageAfterMutation ==
    [][(/\ resp'.op = "GetTree"
        /\ resp'.status = 200
        /\ resp'.calls = <<"cache.GetPaginatedTree">>
        /\ resp' # resp)
           => resp'.body = FreshPage(resp')]_vars

C32_PagesOverTrees ==
    (resp.op = "GetTree" /\ resp.status = 200 /\ FromStore(resp)) =>
        LET roots == Ascending({n \in DOMAIN nodes : nodes[n].parent = Nil})
            lo == (AskedPage(resp) - 1) * AskedSize(resp)
            hi == Min2(AskedPage(resp) * AskedSize(resp), Len(roots))
            top == resp.body.data
        IN  /\ [i \in 1..Len(top) |-> top[i].id] = SubSeq(roots, lo + 1, hi)
            /\ \A i \in 1..Len(top) :
                  {top[i].children[j].id : j \in 1..Len(top[i].children)}
                      = {n \in DOMAIN nodes : nodes[n].parent = top[i].id}
            /\ resp.body.total = Count(nodes)


C34_CacheAside ==
    [][\A k \in RequestKeys :
         (/\ resp'.op = "GetTree"
          /\ SizeInRange(resp'.pageSize)
          /\ AskedPage(resp') = k[1]
          /\ AskedSize(resp') = k[2]
          /\ GetTree(resp'.page, resp'.pageSize)) =>
            LET cached == GetPaginatedTree(k[1], k[2])
            IN  /\ cached.found =>
                      /\ resp'.status = 200
                      /\ resp'.body = cached.response
                      /\ ~FromStore(resp')
                /\ (~cached.found /\ resp'.status = 200) =>
                      GetPaginatedTree(k[1], k[2])' = Hit(resp'.body)
                /\ (/\ resp.op = "GetTree"
                    /\ resp.status = 200
                    /\ resp.page = resp'.page
                    /\ resp.pageSize = resp'.pageSize) =>
                      resp'.body = resp.body]_vars


\* C35: a create that is answered 201 on a store in which no node is its own
\* ancestor leaves a store in which no node is its own ancestor; the chain
\* of parents of the created node does not come back to it.
C35_CreateKeepsAcyclic ==
    [][(/\ resp'.op = "CreateNode"
        /\ resp'.status = 201
        /\ Acyclic(nodes)) =>
          /\ Acyclic(nodes')
          /\ ~UpChain(ParentOf(nodes'), resp'.id, resp'.id, Count(nodes'))]_vars


\* C36: DeleteNode called on a node that lies on a cycle of parent_id
\* completes without error and removes every node of the cycle and every
\* descendant of them.
C36_DeleteOnCycle ==
    [][(/\ resp'.op = "DeleteNode"
        /\ UpChain(ParentOf(nodes), resp'.id, resp'.id, Count(nodes))) =>
          /\ resp'.err = ""
          /\ Subtree(nodes, resp'.id) \cap DOMAIN nodes' = {}]_vars


\* C37: for every page of rows, buildTree of the Lambda handler returns the
\* forest handlers.BuildTreeFromNodes returns: the same top-level entries in
\* the same order with the same children at every depth, rows whose parent
\* is absent from the page included.
C37_LambdaBuildsSameForest ==
    resp.op = "lambda.buildTree" => resp.roots = BuildTreeFromNodes(resp.rows).roots


\* ---- C38 .. C40: the process ----------------------------------------------
\* requester r holds cache.mu, in either mode
Holds(r) == r \in proc.mu.r \/ proc.mu.w = r

\* requester r is inside a call on the provider
InProviderCall(r) == proc.reqs[r].pc \in {"get.provider", "set.provider", "inv.provider"}

\* requester r is inside a call on the repository
InRepoCall(r) == proc.reqs[r].pc \in {"get.repo", "create.repo", "update.repo"}

\* C38: whenever a request is inside GetPaginatedTree, SetPaginatedTree or
\* InvalidateCache of package cache, a provider is installed: the
\* package-level provider is not nil.
C38_ProviderInstalled ==
    \A r \in Requesters : InProviderCall(r) => provider # NoProvider

\* C39: a request that is inside a repository call does not hold cache.mu, in
\* GetTree, CreateNode and UpdateNode alike.
C39_NoCacheLockInRepoCall ==
    \A r \in Requesters : InRepoCall(r) => ~Holds(r)

\* a GET that missed is inside repo.GetAllNodes, holding nothing, while the
\* other request is inside a provider call
C39_Witness ==
    /\ proc.reqs[1].pc = "get.repo"
    /\ ~Holds(1)
    /\ proc.reqs[2].pc = "inv.provider"
    /\ Cardinality(DOMAIN nodes) > 0

\* C40: cache.mu is not held while a call on the Redis provider (GET, SET,
\* SCAN or DEL) is in flight, so a request about to read the cache is never
\* kept waiting by a provider call of another request.
C40_NoLockAcrossProviderCall ==
    provider = "redis" =>
        /\ \A r \in Requesters : InProviderCall(r) => ~Holds(r)
        /\ \A r \in Requesters : proc.reqs[r].pc = "get.lock" => proc.mu.w = 0

====
